---- MODULE Spec2Model ----
(***************************************************************************)
(* The crossword CSP solver of src/crossword/generate.py                   *)
(* (CrosswordCreator): node consistency, AC-3 and backtracking search,     *)
(* run by solve().  The grid model (Variable, Crossword.overlaps,          *)
(* Crossword.neighbors) lives in crossword.py, which generate.py imports;  *)
(* it is modelled from sections 3 and 4.1 of the specification.            *)
(*                                                                         *)
(* Words are tuples of letters.  Word and overlap indices are 0-based as   *)
(* in the Python code; a tuple is indexed at index + 1.                    *)
(***************************************************************************)
EXTENDS Integers, Sequences, FiniteSets, TLC

VARIABLES
    variables,    \* self.crossword.variables: the set of word slots
    overlaps,     \* self.crossword.overlaps: (x, y) -> None or (ix, iy)
    words,        \* self.crossword.words: the vocabulary
    varOrder,     \* iteration order of the set self.crossword.variables
    wordOrder,    \* iteration order of the word sets (copies of one set)
    domains,      \* self.domains: variable -> set of candidate words
    pc,           \* position inside solve()
    queue,        \* ac3: the local worklist of arcs
    changes,      \* ac3: the local counter of successful revisions
    ac3_ret,      \* what ac3() returned: "True" or "False" ("pending" before)
    ac3_exit,     \* which return of ac3 was taken: "empty" (line 166) or "end"
    stack,        \* the active backtrack() calls: their var, their loop position
                  \* and the assignment they were entered with
    assignment,   \* the dict passed down the backtrack() calls
    calls,        \* number of backtrack() calls made so far
    result,       \* what solve() returned: Solution(a) or NoSolution (Pending before)
    \* tictactoe/tictactoe.py
    board,        \* the board of the game in play: cell (i, j) -> X, O or EMPTY
    \* minesweeper/minesweeper.py
    height,       \* MinesweeperAI.height (and Minesweeper.height)
    width,        \* MinesweeperAI.width (and Minesweeper.width)
    game_mines,   \* Minesweeper.mines: the cells of the field that hold a mine
    moves_made,   \* MinesweeperAI.moves_made
    mines,        \* MinesweeperAI.mines
    safes,        \* MinesweeperAI.safes
    knowledge     \* MinesweeperAI.knowledge: list of Sentences [cells, count]

crosswordVars == <<variables, overlaps, words, varOrder, wordOrder, domains, pc,
                   queue, changes, ac3_ret, ac3_exit, stack, assignment, calls,
                   result>>
tictactoeVars == <<board>>
minesweeperVars == <<height, width, game_mines, moves_made, mines, safes, knowledge>>

vars == <<crosswordVars, tictactoeVars, minesweeperVars>>

\* The three programs are run separately: while one runs, the state of the
\* other two is not in play.
CrosswordIdle ==
    /\ variables = {}
    /\ overlaps = <<>>
    /\ words = {}
    /\ varOrder = <<>>
    /\ wordOrder = <<>>
    /\ domains = <<>>
    /\ pc = "idle"
    /\ queue = <<>>
    /\ changes = 0
    /\ ac3_ret = "pending"
    /\ ac3_exit = "pending"
    /\ stack = <<>>
    /\ assignment = <<>>
    /\ calls = 0
    /\ result = "pending"

TicTacToeIdle == board = <<>>

MinesweeperIdle ==
    /\ height = 0
    /\ width = 0
    /\ game_mines = {}
    /\ moves_made = {}
    /\ mines = {}
    /\ safes = {}
    /\ knowledge = <<>>

(***************************************************************************)
(* Bounds of the model.                                                    *)
(***************************************************************************)
\* Largest vocabulary size drawn from WordPool.
MaxWords == 4

\* Python's None: the overlap of two slots that do not cross, and the
\* "no solution" result of backtrack() and solve().
None == "None"

ACROSS == "across"
DOWN == "down"

CAT == <<"C", "A", "T">>
DOG == <<"D", "O", "G">>
TIE == <<"T", "I", "E">>
ACT == <<"A", "C", "T">>
TOE == <<"T", "O", "E">>
TACO == <<"T", "A", "C", "O">>

\* The words vocabularies are drawn from.
WordPool == {CAT, DOG, TIE, ACT, TOE, TACO}

\* The vocabularies the model runs solve() on.
Vocabularies == {V \in SUBSET WordPool : Cardinality(V) <= MaxWords}

\* Grid structures (TRUE = open cell), as rows of cells.
\* A 1x1 grid with no open cell: no variable at all.
GridBlocked == << <<FALSE>> >>
\* One isolated 4-letter ACROSS slot.
GridRow4 == << <<TRUE, TRUE, TRUE, TRUE>> >>
\* Two crossing 3-letter slots sharing their middle cell: overlap (1, 1).
GridCross ==
    << <<FALSE, TRUE, FALSE>>,
       <<TRUE, TRUE, TRUE>>,
       <<FALSE, TRUE, FALSE>> >>
\* A 3-letter ACROSS slot whose last cell starts a 3-letter DOWN slot.
GridCorner ==
    << <<TRUE, TRUE, TRUE>>,
       <<FALSE, FALSE, TRUE>>,
       <<FALSE, FALSE, TRUE>> >>
\* Two 3-letter DOWN slots ending on the two ends of a 3-letter ACROSS slot.
GridU ==
    << <<TRUE, FALSE, TRUE>>,
       <<TRUE, FALSE, TRUE>>,
       <<TRUE, TRUE, TRUE>> >>

Structures == {GridBlocked, GridRow4, GridCross, GridCorner, GridU}

(***************************************************************************)
(* Grid model (crossword.py, modelled from the specification).             *)
(***************************************************************************)
\* Whether cell (r, c), 0-based, is an open cell of structure s.
IsOpen(s, r, c) ==
    /\ r \in 0 .. Len(s) - 1
    /\ c \in 0 .. Len(s[1]) - 1
    /\ s[r + 1][c + 1]

\* Length of the run of open cells starting at (r, c) in direction d.
RunLength(s, r, c, d) ==
    LET at(k) == IF d = DOWN THEN IsOpen(s, r + k, c) ELSE IsOpen(s, r, c + k)
        n == Len(s) + Len(s[1])
    IN  CHOOSE L \in 1 .. n : (\A k \in 0 .. L - 1 : at(k)) /\ ~at(L)

\* One Variable per maximal run of at least two open cells.
VariablesOf(s) ==
    { [i |-> r, j |-> c, direction |-> d, length |-> RunLength(s, r, c, d)] :
        <<r, c, d>> \in
          { t \in (0 .. Len(s) - 1) \X (0 .. Len(s[1]) - 1) \X {ACROSS, DOWN} :
              /\ IsOpen(s, t[1], t[2])
              /\ IF t[3] = DOWN THEN ~IsOpen(s, t[1] - 1, t[2])
                                ELSE ~IsOpen(s, t[1], t[2] - 1)
              /\ RunLength(s, t[1], t[2], t[3]) > 1 } }

\* Variable.cells: the cells of a slot, in word order.
Cells(v) ==
    [k \in 1 .. v.length |->
        IF v.direction = DOWN THEN <<v.i + k - 1, v.j>> ELSE <<v.i, v.j + k - 1>>]

\* Crossword.overlaps[x, y]: None, or the 0-based indices (ix, iy) of the
\* shared cell in x's word and in y's word.
OverlapOf(x, y) ==
    LET common == { p \in (1 .. x.length) \X (1 .. y.length) :
                      Cells(x)[p[1]] = Cells(y)[p[2]] }
    IN  IF common = {} THEN None
        ELSE LET p == CHOOSE q \in common : TRUE IN <<p[1] - 1, p[2] - 1>>

\* Crossword.neighbors(var): the variables that overlap var.
neighbors(var) ==
    {v \in variables : v # var /\ overlaps[<<v, var>>] # None}

\* The permutations of a finite set, as sequences.
Orders(S) ==
    {f \in [1 .. Cardinality(S) -> S] : \A a, b \in DOMAIN f : a # b => f[a] # f[b]}

\* list(S) for a set of words / of variables: S in its iteration order.
InOrder(order, S) == SelectSeq(order, LAMBDA e : e \in S)

(***************************************************************************)
(* CrosswordCreator                                                        *)
(***************************************************************************)
\* Mutant of enforce_node_consistency: `>` for `!=` on line 105, so that
\* only the words that are too short are removed.
enforce_node_consistency_TooShortOnly(doms) ==
    [key \in DOMAIN doms |->
        LET toRemove == {value \in doms[key] : key.length > Len(value)}
        IN  doms[key] \ toRemove]

\* Mutant of enforce_node_consistency: the loop over a domain stops at the
\* first word removed, so that each run removes at most one word per variable.
enforce_node_consistency_OnePerRun(doms) ==
    [key \in DOMAIN doms |->
        LET wrong == InOrder(wordOrder, {value \in doms[key] : key.length # Len(value)})
        IN  IF wrong = <<>> THEN doms[key] ELSE doms[key] \ {Head(wrong)}]

\* enforce_node_consistency: domains with the words of a wrong length removed.
enforce_node_consistency(doms) ==
    [key \in DOMAIN doms |->
        LET toRemove == {value \in doms[key] : key.length # Len(value)}
        IN  doms[key] \ toRemove]

\* Mutant of revise: the two overlap indices exchanged on lines 127 and 129.
revise_IndicesSwapped(doms, x, y) ==
    LET overlap == overlaps[<<x, y>>]
    IN  IF overlap = None THEN [domains |-> doms, revised |-> FALSE]
        ELSE LET toRemove ==
                   { valuex \in doms[x] :
                       ~\E valuey \in doms[y] :
                           valuey[overlap[1] + 1] = valuex[overlap[2] + 1] }
             IN  [domains |-> [doms EXCEPT ![x] = @ \ toRemove],
                  revised |-> toRemove # {}]

\* Mutant of revise: `revised = True` set for every arc that has an overlap,
\* whether or not a word was removed.
revise_AlwaysRevised(doms, x, y) ==
    LET overlap == overlaps[<<x, y>>]
    IN  IF overlap = None THEN [domains |-> doms, revised |-> FALSE]
        ELSE LET toRemove ==
                   { valuex \in doms[x] :
                       ~\E valuey \in doms[y] :
                           valuey[overlap[2] + 1] = valuex[overlap[1] + 1] }
             IN  [domains |-> [doms EXCEPT ![x] = @ \ toRemove],
                  revised |-> TRUE]

\* revise(x, y): the new domains and the returned flag.
revise(doms, x, y) ==
    LET overlap == overlaps[<<x, y>>]
    IN  IF overlap = None THEN [domains |-> doms, revised |-> FALSE]
        ELSE LET toRemove ==
                   { valuex \in doms[x] :
                       ~\E valuey \in doms[y] :
                           valuey[overlap[2] + 1] = valuex[overlap[1] + 1] }
             IN  [domains |-> [doms EXCEPT ![x] = @ \ toRemove],
                  revised |-> toRemove # {}]

\* ac3, lines 150-155: the initial worklist of all arcs of the problem.
RECURSIVE ArcsOf(_, _)
ArcsOf(variable, ns) ==
    IF ns = <<>> THEN <<>>
    ELSE <<<<variable, Head(ns)>>, <<Head(ns), variable>>>> \o ArcsOf(variable, Tail(ns))

RECURSIVE AllArcs(_)
AllArcs(vs) ==
    IF vs = <<>> THEN <<>>
    ELSE ArcsOf(Head(vs), InOrder(varOrder, neighbors(Head(vs)))) \o AllArcs(Tail(vs))

\* Mutant of PushedArcs: a revised variable's arcs are not put back on the
\* worklist.
PushedArcs_Nothing(x, ns) == <<>>

\* ac3, lines 167-169: the arcs pushed after x was revised.
RECURSIVE PushedArcs(_, _)
PushedArcs(x, ns) ==
    IF ns = <<>> THEN <<>>
    ELSE <<<<Head(ns), x>>, <<x, Head(ns)>>>> \o PushedArcs(x, Tail(ns))

\* assignment_complete
assignment_complete(a) ==
    IF Cardinality(DOMAIN a) # Cardinality(variables) THEN FALSE ELSE TRUE

\* Mutant of consistent: without the check of lines 192-193 that a word is
\* used once.
consistent_WordsReused(a) ==
    \A key \in DOMAIN a :
        /\ key.length = Len(a[key])
        /\ \A neighbour \in neighbors(key) :
              neighbour \in DOMAIN a =>
                  LET o == overlaps[<<key, neighbour>>]
                  IN  a[key][o[1] + 1] = a[neighbour][o[2] + 1]

\* Mutant of consistent: without the check of lines 197-201 that crossing
\* words agree on their shared cell.
consistent_OverlapsIgnored(a) ==
    \A key \in DOMAIN a :
        /\ ~\E other \in DOMAIN a : other # key /\ a[other] = a[key]
        /\ key.length = Len(a[key])

\* Mutant of consistent: without the check of lines 194-195 that a word has
\* the length of its variable.
consistent_LengthIgnored(a) ==
    \A key \in DOMAIN a :
        /\ ~\E other \in DOMAIN a : other # key /\ a[other] = a[key]
        /\ \A neighbour \in neighbors(key) :
              neighbour \in DOMAIN a =>
                  LET o == overlaps[<<key, neighbour>>]
                  IN  a[key][o[1] + 1] = a[neighbour][o[2] + 1]

\* consistent
consistent(a) ==
    \A key \in DOMAIN a :
        /\ ~\E other \in DOMAIN a : other # key /\ a[other] = a[key]
        /\ key.length = Len(a[key])
        /\ \A neighbour \in neighbors(key) :
              neighbour \in DOMAIN a =>
                  LET o == overlaps[<<key, neighbour>>]
                  IN  a[key][o[1] + 1] = a[neighbour][o[2] + 1]

\* order_domain_values: the number of unassigned neighbours of var whose
\* domain holds val.
LcvCount(var, a, val) ==
    Cardinality({n \in neighbors(var) \ DOMAIN a : val \in domains[n]})

\* Mutant of order_domain_values: line 221 left out, the values as listed.
order_domain_values_Unsorted(var, a) == InOrder(wordOrder, domains[var])

\* order_domain_values: list(domains[var]) stably sorted by LcvCount.
order_domain_values(var, a) ==
    LET values == InOrder(wordOrder, domains[var])
        RECURSIVE sorted(_)
        sorted(c) ==
            IF c > Cardinality(variables) THEN <<>>
            ELSE SelectSeq(values, LAMBDA val : LcvCount(var, a, val) = c) \o sorted(c + 1)
    IN  sorted(0)

\* Mutant of SelectLoop: `>` for `<` on line 241, which keeps the largest
\* domain seen.
RECURSIVE SelectLoop_Largest(_, _, _, _)
SelectLoop_Largest(vs, a, minCount, listOfVars) ==
    IF vs = <<>> THEN listOfVars
    ELSE LET var == Head(vs)
         IN  IF var \in DOMAIN a THEN SelectLoop_Largest(Tail(vs), a, minCount, listOfVars)
             ELSE IF minCount < 0 \/ Cardinality(domains[var]) > minCount
                  THEN SelectLoop_Largest(Tail(vs), a, Cardinality(domains[var]),
                                          Append(listOfVars, var))
                  ELSE SelectLoop_Largest(Tail(vs), a, minCount, listOfVars)

\* select_unassigned_variable, lines 235-243: the loop over the variables,
\* carrying minCount and listOfVars.
RECURSIVE SelectLoop(_, _, _, _)
SelectLoop(vs, a, minCount, listOfVars) ==
    IF vs = <<>> THEN listOfVars
    ELSE LET var == Head(vs)
         IN  IF var \in DOMAIN a THEN SelectLoop(Tail(vs), a, minCount, listOfVars)
             ELSE IF minCount < 0 \/ Cardinality(domains[var]) < minCount
                  THEN SelectLoop(Tail(vs), a, Cardinality(domains[var]),
                                  Append(listOfVars, var))
                  ELSE SelectLoop(Tail(vs), a, minCount, listOfVars)

\* Mutant of select_unassigned_variable: listOfVars[0] for listOfVars[-1],
\* which is the first unassigned variable whatever its domain.
select_unassigned_variable_First(a) ==
    LET listOfVars == SelectLoop(varOrder, a, -1, <<>>)
    IN  listOfVars[1]

\* select_unassigned_variable
select_unassigned_variable(a) ==
    LET listOfVars == SelectLoop(varOrder, a, -1, <<>>)
    IN  listOfVars[Len(listOfVars)]

\* A function with one key removed / set (del d[k], d[k] = v).
Del(a, k) == [x \in DOMAIN a \ {k} |-> a[x]]
Set(a, k, v) == [x \in DOMAIN a \cup {k} |-> IF x = k THEN v ELSE a[x]]
EmptyDict == [x \in {} |-> None]

\* The values of `assignment` in main(): a dict, or None.
Solution(a) == [kind |-> "solution", value |-> a]
NoSolution == [kind |-> "None", value |-> EmptyDict]
Pending == [kind |-> "pending", value |-> EmptyDict]

\* Mutant of main_no_solution: `not assignment` for `assignment is None`,
\* which takes the empty dict for None.
main_no_solution_Falsy(a) == a.kind = "None" \/ a.value = EmptyDict

\* main, line 288: `assignment is None`, which prints "No solution.".
main_no_solution(a) == a.kind = "None"

\* Mutant of Popped: `arc = queue[-1]` for `arc = queue.pop()`, which leaves
\* the arc on the worklist.
Popped_Peeked(q) == q

\* ac3, line 162: the worklist after queue.pop().
Popped(q) == SubSeq(q, 1, Len(q) - 1)

(***************************************************************************)
(* solve(), step by step.                                                  *)
(***************************************************************************)
Init ==
    \E s \in Structures, vocab \in Vocabularies :
        /\ variables = VariablesOf(s)
        /\ overlaps = [p \in {q \in VariablesOf(s) \X VariablesOf(s) : q[1] # q[2]}
                         |-> OverlapOf(p[1], p[2])]
        /\ words = vocab
        /\ varOrder \in Orders(VariablesOf(s))
        /\ wordOrder \in Orders(vocab)
        /\ domains = [var \in VariablesOf(s) |-> vocab]
        /\ pc = "solve"
        /\ queue = <<>>
        /\ changes = 0
        /\ ac3_ret = "pending"
        /\ ac3_exit = "pending"
        /\ stack = <<>>
        /\ assignment = EmptyDict
        /\ calls = 0
        /\ result = Pending
        /\ TicTacToeIdle
        /\ MinesweeperIdle

\* solve, line 92.
NodeConsistency ==
    /\ pc = "solve"
    /\ domains' = enforce_node_consistency(domains)
    /\ pc' = "ac3"
    /\ UNCHANGED <<variables, overlaps, words, varOrder, wordOrder, queue, changes,
                   ac3_ret, ac3_exit, stack, assignment, calls, result>>
    /\ UNCHANGED <<tictactoeVars, minesweeperVars>>

\* ac3, lines 150-159: seed the worklist.
Ac3Start ==
    /\ pc = "ac3"
    /\ queue' = AllArcs(varOrder)
    /\ changes' = 0
    /\ pc' = "ac3_loop"
    /\ UNCHANGED <<variables, overlaps, words, varOrder, wordOrder, domains,
                   ac3_ret, ac3_exit, stack, assignment, calls, result>>
    /\ UNCHANGED <<tictactoeVars, minesweeperVars>>

\* ac3, lines 161-169: one iteration of the while loop.
Ac3Step ==
    /\ pc = "ac3_loop"
    /\ queue # <<>>
    /\ LET arc == queue[Len(queue)]
           rest == Popped(queue)
           r == revise(domains, arc[1], arc[2])
       IN  /\ domains' = r.domains
           /\ IF r.revised
              THEN /\ changes' = changes + 1
                   /\ IF Cardinality(r.domains[arc[1]]) = 0
                      THEN /\ ac3_ret' = "False"
                           /\ ac3_exit' = "empty"
                           /\ queue' = rest
                           /\ pc' = "search"
                      ELSE /\ queue' = rest \o PushedArcs(arc[1],
                                           InOrder(varOrder, neighbors(arc[1])))
                           /\ UNCHANGED <<ac3_ret, ac3_exit, pc>>
              ELSE /\ queue' = rest
                   /\ UNCHANGED <<changes, ac3_ret, ac3_exit, pc>>
    /\ UNCHANGED <<variables, overlaps, words, varOrder, wordOrder, stack,
                   assignment, calls, result>>
    /\ UNCHANGED <<tictactoeVars, minesweeperVars>>

\* Mutant of Ac3End: `return True` whatever the value of changes.
Ac3End_ReturnsTrue ==
    /\ pc = "ac3_loop"
    /\ queue = <<>>
    /\ ac3_ret' = "True"
    /\ ac3_exit' = "end"
    /\ pc' = "search"
    /\ UNCHANGED <<variables, overlaps, words, varOrder, wordOrder, domains, queue,
                   changes, stack, assignment, calls, result>>
    /\ UNCHANGED <<tictactoeVars, minesweeperVars>>

\* ac3, lines 171-173: the worklist is empty.
Ac3End ==
    /\ pc = "ac3_loop"
    /\ queue = <<>>
    /\ ac3_ret' = IF changes # 0 THEN "True" ELSE "False"
    /\ ac3_exit' = "end"
    /\ pc' = "search"
    /\ UNCHANGED <<variables, overlaps, words, varOrder, wordOrder, domains, queue,
                   changes, stack, assignment, calls, result>>
    /\ UNCHANGED <<tictactoeVars, minesweeperVars>>

\* solve, line 94, and backtrack, lines 257-262 and 265: a call of
\* backtrack(assignment), up to the start of its loop over the values.
BacktrackCall ==
    /\ pc = "search"
    /\ calls' = calls + 1
    /\ IF assignment_complete(assignment)
       THEN /\ result' = Solution(assignment)
            /\ pc' = "done"
            /\ UNCHANGED stack
       ELSE LET var == select_unassigned_variable(assignment)
            IN  /\ stack' = Append(stack, [var |-> var,
                                   values |-> order_domain_values(var, assignment),
                                   entry |-> assignment])
                /\ pc' = "loop"
                /\ UNCHANGED result
    /\ UNCHANGED <<variables, overlaps, words, varOrder, wordOrder, domains, queue,
                   changes, ac3_ret, ac3_exit, assignment>>
    /\ UNCHANGED <<tictactoeVars, minesweeperVars>>

\* Mutant of BacktrackTry: the tried value is also written into the
\* domains, as the only value left for the variable.
BacktrackTry_NarrowsDomain ==
    /\ pc = "loop"
    /\ stack[Len(stack)].values # <<>>
    /\ LET frame == stack[Len(stack)]
           value == Head(frame.values)
           tried == Set(assignment, frame.var, value)
       IN  /\ assignment' = tried
           /\ domains' = [domains EXCEPT ![frame.var] = {value}]
           /\ stack' = [stack EXCEPT ![Len(stack)].values = Tail(@)]
           /\ pc' = IF consistent(tried) THEN "search" ELSE "loop"
    /\ UNCHANGED <<variables, overlaps, words, varOrder, wordOrder, queue,
                   changes, ac3_ret, ac3_exit, calls, result>>
    /\ UNCHANGED <<tictactoeVars, minesweeperVars>>

\* backtrack, lines 262-265: try the next value of the innermost call.
BacktrackTry ==
    /\ pc = "loop"
    /\ stack[Len(stack)].values # <<>>
    /\ LET frame == stack[Len(stack)]
           value == Head(frame.values)
           tried == Set(assignment, frame.var, value)
       IN  /\ assignment' = tried
           /\ stack' = [stack EXCEPT ![Len(stack)].values = Tail(@)]
           /\ pc' = IF consistent(tried) THEN "search" ELSE "loop"
    /\ UNCHANGED <<variables, overlaps, words, varOrder, wordOrder, domains, queue,
                   changes, ac3_ret, ac3_exit, calls, result>>
    /\ UNCHANGED <<tictactoeVars, minesweeperVars>>

\* backtrack, line 269, and line 268 in the caller: the innermost call has
\* no value left and returns None; its caller deletes its own entry.
BacktrackFail ==
    /\ pc = "loop"
    /\ stack[Len(stack)].values = <<>>
    /\ stack' = SubSeq(stack, 1, Len(stack) - 1)
    /\ IF Len(stack) = 1
       THEN /\ result' = NoSolution
            /\ pc' = "done"
            /\ UNCHANGED assignment
       ELSE /\ assignment' = Del(assignment, stack[Len(stack) - 1].var)
            /\ UNCHANGED <<result, pc>>
    /\ UNCHANGED <<variables, overlaps, words, varOrder, wordOrder, domains, queue,
                   changes, ac3_ret, ac3_exit, calls>>
    /\ UNCHANGED <<tictactoeVars, minesweeperVars>>

Next ==
    \/ NodeConsistency
    \/ Ac3Start
    \/ Ac3Step
    \/ Ac3End
    \/ BacktrackCall
    \/ BacktrackTry
    \/ BacktrackFail

Spec == Init /\ [][Next]_vars

\* The position of an arc in the order of the arcs by their variables.
ArcRank(arc) ==
    LET Index(v) == CHOOSE i \in 1 .. Len(varOrder) : varOrder[i] = v
    IN  Index(arc[1]) * (Len(varOrder) + 1) + Index(arc[2])

\* A worklist read as a bag: its arcs in the order of their ranks. With the
\* pop order free, the position of an arc in the list decides nothing.
RECURSIVE AsBag(_)
AsBag(q) ==
    IF q = <<>>
    THEN <<>>
    ELSE LET m == CHOOSE i \in 1 .. Len(q) :
                      \A j \in 1 .. Len(q) : ArcRank(q[i]) <= ArcRank(q[j])
         IN  <<q[m]>> \o AsBag(SubSeq(q, 1, m - 1) \o SubSeq(q, m + 1, Len(q)))

\* ac3 with the pop order left free: one iteration of the while loop of
\* lines 161-169 on any arc of the worklist, where the code pops the last.
Ac3StepAny ==
    /\ pc = "ac3_loop"
    /\ queue # <<>>
    /\ \E k \in 1 .. Len(queue) :
          LET arc == queue[k]
              rest == SubSeq(queue, 1, k - 1) \o SubSeq(queue, k + 1, Len(queue))
              r == revise(domains, arc[1], arc[2])
          IN  /\ domains' = r.domains
              /\ IF r.revised
                 THEN /\ changes' = changes + 1
                      /\ IF Cardinality(r.domains[arc[1]]) = 0
                         THEN /\ ac3_ret' = "False"
                              /\ ac3_exit' = "empty"
                              /\ queue' = AsBag(rest)
                              /\ pc' = "search"
                         ELSE /\ queue' = AsBag(rest \o PushedArcs(arc[1],
                                              InOrder(varOrder, neighbors(arc[1]))))
                              /\ UNCHANGED <<ac3_ret, ac3_exit, pc>>
                 ELSE /\ queue' = AsBag(rest)
                      /\ UNCHANGED <<changes, ac3_ret, ac3_exit, pc>>
    /\ UNCHANGED <<variables, overlaps, words, varOrder, wordOrder, stack,
                   assignment, calls, result>>
    /\ UNCHANGED <<tictactoeVars, minesweeperVars>>

\* Propagation alone (lines 92-93 of solve), for one iteration order of the
\* sets per problem and every pop order of the worklist.
InitAnyOrder ==
    /\ Init
    /\ varOrder = CHOOSE o \in Orders(variables) : TRUE
    /\ wordOrder = CHOOSE o \in Orders(words) : TRUE

NextAnyOrder ==
    \/ NodeConsistency
    \/ Ac3Start
    \/ Ac3StepAny
    \/ Ac3End

SpecAnyOrder == InitAnyOrder /\ [][NextAnyOrder]_vars

\* solve() on vocabularies in which a word can fit two crossing slots of
\* equal length while another fits only one of them, so that the values of
\* a domain differ in the number of neighbouring domains holding them.
TOT == <<"T", "O", "T">>

TiesWordPool == {CAT, DOG, TIE, TOE, TOT}

TiesVocabularies == {V \in SUBSET TiesWordPool : Cardinality(V) <= MaxWords}

InitTies ==
    \E s \in Structures, vocab \in TiesVocabularies :
        /\ variables = VariablesOf(s)
        /\ overlaps = [p \in {q \in VariablesOf(s) \X VariablesOf(s) : q[1] # q[2]}
                         |-> OverlapOf(p[1], p[2])]
        /\ words = vocab
        /\ varOrder \in Orders(VariablesOf(s))
        /\ wordOrder \in Orders(vocab)
        /\ domains = [var \in VariablesOf(s) |-> vocab]
        /\ pc = "solve"
        /\ queue = <<>>
        /\ changes = 0
        /\ ac3_ret = "pending"
        /\ ac3_exit = "pending"
        /\ stack = <<>>
        /\ assignment = EmptyDict
        /\ calls = 0
        /\ result = Pending
        /\ TicTacToeIdle
        /\ MinesweeperIdle

SpecTies == InitTies /\ [][Next]_vars

\* solve() is one sequential call: whenever it has a next step, it takes it.
FairSpec == Init /\ [][Next]_vars /\ WF_vars(Next)

(***************************************************************************)
(* What the properties are stated in: fillings of the grid.                *)
(***************************************************************************)
\* a gives every variable one vocabulary word of the variable's length, the
\* words of crossing variables agree on the shared cell, and no word is
\* used twice.
ValidFilling(a) ==
    /\ DOMAIN a = variables
    /\ \A v \in variables : a[v] \in words /\ Len(a[v]) = v.length
    /\ \A x, y \in variables :
          (x # y /\ overlaps[<<x, y>>] # None) =>
              a[x][overlaps[<<x, y>>][1] + 1] = a[y][overlaps[<<x, y>>][2] + 1]
    /\ \A x, y \in variables : x # y => a[x] # a[y]

\* Every valid filling of the grid over the vocabulary.
Fillings ==
    {a \in [variables -> words] :
        (\A v \in variables : Len(a[v]) = v.length) /\ ValidFilling(a)}

\* Propagation (node consistency, then ac3) is over.
Propagated == ac3_exit # "pending"

\* Some variable has no candidate word left.
SomeDomainEmpty == \E v \in variables : domains[v] = {}

\* Every value of every domain has a support across every arc.
ArcConsistent ==
    \A x, y \in variables :
        (x # y /\ overlaps[<<x, y>>] # None) =>
            \A w \in domains[x] :
                \E u \in domains[y] :
                    u[overlaps[<<x, y>>][2] + 1] = w[overlaps[<<x, y>>][1] + 1]

\* The grid of two crossing 3-letter slots with overlap (1, 1).
IsCross == variables = VariablesOf(GridCross)
CrossAcross == CHOOSE v \in VariablesOf(GridCross) : v.direction = ACROSS
CrossDown == CHOOSE v \in VariablesOf(GridCross) : v.direction = DOWN

\* Two different vocabulary words with the same letter at index 1.
PairSharesMiddle ==
    \E w1, w2 \in words :
        w1 # w2 /\ Len(w1) = 3 /\ Len(w2) = 3 /\ w1[2] = w2[2]

(***************************************************************************)
(* Properties.                                                             *)
(***************************************************************************)
\* C1: every assignment solve() returns as a solution gives exactly one word
\* to every variable, of the variable's length, with equal characters at
\* every overlap and no word used for two variables.
C1_SolutionValid ==
    (pc = "done" /\ result.kind = "solution") => ValidFilling(result.value)

\* C1 witness: solve() returned a solution of a grid with three slots.
C1_Witness ==
    /\ pc = "done"
    /\ result.kind = "solution"
    /\ Cardinality(variables) = 3

\* C2 (as claimed): the search is exhaustive; solve() returns None only when
\* no valid filling exists, and returns a solution whenever one exists.
C2_Exhaustive ==
    pc = "done" => (result = NoSolution <=> Fillings = {})

\* C3 (as claimed): when propagation leaves a variable with an empty domain,
\* solve() returns "no solution" without ever calling backtrack.
C3_NoSearchOnEmptyDomain ==
    (Propagated /\ SomeDomainEmpty) => (calls = 0 /\ pc # "loop")

\* C3 (amended): when propagation leaves a variable with an empty domain,
\* solve() still calls backtrack, once; that call tries no value, leaves the
\* assignment empty and returns None, which solve() returns.
C3_EmptyDomainNoSolution ==
    (Propagated /\ SomeDomainEmpty) =>
        /\ calls <= 1
        /\ assignment = EmptyDict
        /\ pc = "done" => (result = NoSolution /\ calls = 1)

\* C3 witness: solve() has returned after ac3 took its empty-domain exit,
\* on a grid where another variable still has candidates.
C3_Witness ==
    /\ pc = "done"
    /\ ac3_exit = "empty"
    /\ \E v \in variables : domains[v] # {}

\* C4 (as claimed, on a problem that has arcs): ac3() returns True whenever
\* it finishes with every arc consistent and every domain non-empty, and
\* returns False only when some domain is empty.
C4_Ac3ReturnValue ==
    (Propagated /\ \E v \in variables : neighbors(v) # {}) =>
        /\ (ArcConsistent /\ ~SomeDomainEmpty) => ac3_ret = "True"
        /\ ac3_ret = "False" => SomeDomainEmpty

\* C5: after ac3() over the whole problem has emptied its worklist, every
\* word left in Domain[x] has, for every overlapping y, a word in Domain[y]
\* with the same character at the overlap.
C5_ArcConsistentAtEnd ==
    ac3_exit = "end" => ArcConsistent

\* C5 witness: ac3 reached the end of its worklist after revising domains
\* of a grid with three slots.
C5_Witness ==
    /\ ac3_exit = "end"
    /\ changes > 1
    /\ Cardinality(variables) = 3
    /\ ~SomeDomainEmpty

\* C6: after enforce_node_consistency() and ac3(), every word a valid
\* filling over the full vocabulary gives to a variable is still in that
\* variable's domain.
C6_PropagationKeepsSolutions ==
    Propagated => \A a \in Fillings : \A v \in variables : a[v] \in domains[v]

\* C6 witness: propagation removed words by revise, and a valid filling exists.
C6_Witness ==
    /\ Propagated
    /\ changes > 0
    /\ Fillings # {}

\* C7: right after enforce_node_consistency() every domain is exactly the
\* vocabulary words of the variable's length, and in every later state of
\* solve() every word of every domain has its variable's length.
C7_LengthInvariant ==
    /\ pc = "ac3" =>
          \A v \in variables : domains[v] = {w \in words : Len(w) = v.length}
    /\ pc # "solve" =>
          \A v \in variables : \A w \in domains[v] : Len(w) = v.length

\* C7 witness: solve() is over on a grid where node consistency removed a
\* word of the wrong length from a domain and kept another word.
C7_Witness ==
    /\ pc = "done"
    /\ \E v \in variables :
          /\ \E w \in words : Len(w) # v.length
          /\ \E w \in words : Len(w) = v.length

\* C8: enforce_node_consistency() is idempotent: run on domains that are
\* already node-consistent it removes nothing.
C8_NodeConsistencyIdempotent ==
    pc # "solve" => enforce_node_consistency(domains) = domains

\* C8 witness: node consistency has run and removed at least two words from
\* a domain.
C8_Witness ==
    /\ pc = "ac3"
    /\ \E v \in variables : Cardinality(words \ domains[v]) >= 2

\* C9: for a crossword with no variables solve() returns the empty
\* assignment as a success, which main() tells from None.
C9_NoVariablesEmptySolution ==
    (pc = "done" /\ variables = {}) =>
        /\ result = Solution(EmptyDict)
        /\ ~main_no_solution(result)

\* C9 witness: solve() returned on the grid without variables, with a
\* non-empty vocabulary.
C9_Witness ==
    /\ pc = "done"
    /\ variables = {}
    /\ words # {}

RECURSIVE Power(_, _)
Power(b, e) == IF e = 0 THEN 1 ELSE b * Power(b, e - 1)
RECURSIVE SearchSpaceTo(_)
SearchSpaceTo(depth) ==
    IF depth < 0 THEN 0
    ELSE Power(Cardinality(words), depth) + SearchSpaceTo(depth - 1)
SearchSpace == SearchSpaceTo(Cardinality(variables))

\* C11: solve() always terminates: every push on the AC-3 worklist follows a
\* strict shrink of a domain, the search makes at most as many backtrack
\* calls as the exhaustive search space has nodes, solve() returns, and it
\* returns "no solution" when the grid has no valid filling.
C11_Terminates ==
    /\ <>(pc = "done")
    /\ [][(pc = "ac3_loop" /\ queue # <<>> /\ Len(queue') >= Len(queue)) =>
            \E v \in variables :
                domains'[v] \subseteq domains[v] /\ domains'[v] # domains[v]]_vars
    /\ [](calls <= SearchSpace)
    /\ []((pc = "done" /\ Fillings = {}) => result = NoSolution)

\* C11 witness: solve() returned "no solution" on a grid without valid
\* filling, after ac3 revised domains and the search went below its root call.
C11_Witness ==
    /\ pc = "done"
    /\ Fillings = {}
    /\ result = NoSolution
    /\ changes > 0
    /\ calls > 1
(***************************************************************************)
(* Partial assignments, as the search properties speak of them.            *)
(***************************************************************************)
\* Some word is assigned to two different variables.
Reused(a) == \E x, y \in DOMAIN a : x # y /\ a[x] = a[y]

\* Some assigned word has not the length of its variable.
WrongLength(a) == \E x \in DOMAIN a : Len(a[x]) # x.length

\* Two assigned crossing variables differ on their shared cell.
Clash(a) ==
    \E x, y \in DOMAIN a :
        /\ x # y
        /\ overlaps[<<x, y>>] # None
        /\ a[x][overlaps[<<x, y>>][1] + 1] # a[y][overlaps[<<x, y>>][2] + 1]

\* The partial assignment passes the check of lengths, overlaps and word
\* uniqueness.
PartialConsistent(a) == ~Reused(a) /\ ~WrongLength(a) /\ ~Clash(a)

\* Every mapping of some of the variables to vocabulary words.
PartialAssignments == UNION {[S -> words] : S \in SUBSET variables}

\* C15 (as claimed): whenever a call of backtrack returns None the assignment
\* holds exactly the entries it held when that call began; a failed search
\* from the root leaves the assignment empty.
C15_UndoneOnFailure ==
    /\ (pc = "loop" /\ stack[Len(stack)].values = <<>>) =>
          assignment = stack[Len(stack)].entry
    /\ (pc = "done" /\ result = NoSolution) => assignment = EmptyDict

\* C16 (as claimed): at every entry to a backtrack call, every return from
\* one and whenever a new candidate value is about to be tried, the partial
\* assignment passes the consistency check: no entry that failed it is left.
C16_StepBoundaryConsistent ==
    pc \in {"search", "loop", "done"} => PartialConsistent(assignment)

\* C17: revise(x, y) with overlap (ix, iy) removes from Domain[x] exactly the
\* words without a word of Domain[y] carrying their character, returns True
\* iff a word was removed, and leaves every other domain unchanged; without
\* overlap it changes nothing and returns False.
C17_ReviseExact ==
    \A x, y \in variables :
        x # y =>
            LET r == revise(domains, x, y)
                o == overlaps[<<x, y>>]
            IN  IF o = None
                THEN r.domains = domains /\ r.revised = FALSE
                ELSE /\ r.domains[x] =
                          {w \in domains[x] :
                              \E u \in domains[y] : u[o[2] + 1] = w[o[1] + 1]}
                     /\ r.revised <=> (r.domains[x] # domains[x])
                     /\ \A v \in variables \ {x} : r.domains[v] = domains[v]

\* C17 witness: ac3 is about to revise an arc that loses a word and keeps
\* another, on a grid that also has two slots without overlap.
C17_Witness ==
    /\ pc = "ac3_loop"
    /\ queue # <<>>
    /\ LET arc == queue[Len(queue)]
           r == revise(domains, arc[1], arc[2])
       IN  r.revised /\ r.domains[arc[1]] # {}
    /\ \E x, y \in variables : x # y /\ overlaps[<<x, y>>] = None

\* C19: consistent(assignment) returns False if and only if a word is
\* assigned to two variables, or an assigned word has not its variable's
\* length, or two assigned neighbours differ at their overlap; unassigned
\* neighbours impose nothing.
C19_ConsistentIff ==
    /\ consistent(assignment) <=> PartialConsistent(assignment)
    /\ pc = "solve" =>
          \A a \in PartialAssignments : consistent(a) <=> PartialConsistent(a)

\* C19 witness: the search holds an assignment of two crossing variables
\* whose words are different and differ on the shared cell.
C19_Witness ==
    /\ pc = "loop"
    /\ Cardinality(DOMAIN assignment) = 2
    /\ Clash(assignment)
    /\ ~Reused(assignment)

\* C20: for every incomplete assignment select_unassigned_variable returns a
\* variable that is not assigned and whose domain is the smallest among the
\* unassigned variables.
C20_SelectsMinimumDomain ==
    \A S \in SUBSET variables :
        S # variables =>
            LET a == [v \in S |-> None]
                var == select_unassigned_variable(a)
            IN  /\ var \in variables \ S
                /\ \A u \in variables \ S :
                      Cardinality(domains[var]) <= Cardinality(domains[u])

\* C20 witness: the search has selected a variable on a grid of three
\* slots where the first variable in iteration order has a larger domain
\* than the last.
C20_Witness ==
    /\ pc = "loop"
    /\ Cardinality(variables) = 3
    /\ Cardinality(domains[varOrder[1]]) > Cardinality(domains[varOrder[3]])
\* The domains node consistency leaves: the vocabulary words of each
\* variable's length.
NodeConsistentDomains ==
    [v \in variables |-> {w \in words : Len(w) = v.length}]

\* The largest arc-consistent domains inside D: the unsupported words
\* removed from all domains at once, until nothing changes.
RECURSIVE ArcClosure(_)
ArcClosure(D) ==
    LET E == [x \in variables |->
                {w \in D[x] :
                    \A y \in neighbors(x) :
                        \E u \in D[y] :
                            u[overlaps[<<x, y>>][2] + 1] = w[overlaps[<<x, y>>][1] + 1]}]
    IN  IF E = D THEN D ELSE ArcClosure(E)

\* C18: AC-3 is confluent: whatever order arcs are popped in, ac3() either
\* ends with the same final domains (the largest arc-consistent ones), or
\* fails with an empty domain under every pop order.
C18_Confluent ==
    Propagated =>
        LET closure == ArcClosure(NodeConsistentDomains)
            emptied == \E v \in variables :
                           NodeConsistentDomains[v] # {} /\ closure[v] = {}
        IN  /\ ac3_exit = "empty" <=> emptied
            /\ ac3_exit = "end" => domains = closure

\* C18 witness: ac3 reached the end of its worklist on a grid of three
\* slots after more than one revision, with no domain empty.
C18_Witness ==
    /\ ac3_exit = "end"
    /\ changes > 1
    /\ Cardinality(variables) = 3
    /\ ~SomeDomainEmpty
(***************************************************************************)
(* tictactoe/tictactoe.py                                                  *)
(***************************************************************************)
X == "X"
O == "O"
EMPTY == None

\* The cells (i, j) of the board.
BoardCells == (0 .. 2) \X (0 .. 2)

initial_state == [c \in BoardCells |-> EMPTY]

player(b) ==
    LET count == Cardinality({c \in BoardCells : b[c] # EMPTY})
    IN  IF count % 2 = 0 THEN X ELSE O

actions(b) == {c \in BoardCells : b[c] = EMPTY}

\* result(board, action), for an action of actions(board); any other action
\* raises (line 58) and gives no board.
ttt_result(b, action) == [b EXCEPT ![action] = player(b)]

\* The eight lines in the order winner() tests them; the first whose three
\* cells hold equal values decides, and its value is returned.
winner(b) ==
    IF b[<<0, 0>>] = b[<<0, 1>>] /\ b[<<0, 1>>] = b[<<0, 2>>] THEN b[<<0, 0>>]
    ELSE IF b[<<1, 0>>] = b[<<1, 1>>] /\ b[<<1, 1>>] = b[<<1, 2>>] THEN b[<<1, 0>>]
    ELSE IF b[<<2, 0>>] = b[<<2, 1>>] /\ b[<<2, 1>>] = b[<<2, 2>>] THEN b[<<2, 0>>]
    ELSE IF b[<<0, 0>>] = b[<<1, 0>>] /\ b[<<1, 0>>] = b[<<2, 0>>] THEN b[<<0, 0>>]
    ELSE IF b[<<0, 1>>] = b[<<1, 1>>] /\ b[<<1, 1>>] = b[<<2, 1>>] THEN b[<<0, 1>>]
    ELSE IF b[<<0, 2>>] = b[<<1, 2>>] /\ b[<<1, 2>>] = b[<<2, 2>>] THEN b[<<0, 2>>]
    ELSE IF b[<<0, 0>>] = b[<<1, 1>>] /\ b[<<1, 1>>] = b[<<2, 2>>] THEN b[<<0, 0>>]
    ELSE IF b[<<0, 2>>] = b[<<1, 1>>] /\ b[<<1, 1>>] = b[<<2, 0>>] THEN b[<<0, 2>>]
    ELSE None

terminal(b) ==
    IF winner(b) # None THEN TRUE
    ELSE IF Cardinality(actions(b)) = 0 THEN TRUE
    ELSE FALSE

utility(b) ==
    IF winner(b) = X THEN 1
    ELSE IF winner(b) = O THEN -1
    ELSE 0

Largest(S) == CHOOSE m \in S : \A n \in S : n <= m
Smallest(S) == CHOOSE m \in S : \A n \in S : m <= n

RECURSIVE maxValue(_), minValue(_)
maxValue(b) ==
    IF terminal(b)
    THEN utility(b)
    ELSE Largest({-2} \cup {minValue(ttt_result(b, action)) : action \in actions(b)})

minValue(b) ==
    IF terminal(b)
    THEN utility(b)
    ELSE Smallest({2} \cup {maxValue(ttt_result(b, action)) : action \in actions(b)})

\* minimax(board): the answers it can give. It returns None when utility is
\* not 0; otherwise the move of the last entry of scores with the best score,
\* and scores is in the iteration order of the set actions(board), so any
\* move with the best score can be that last one. On a full board without a
\* winner scores is empty and scores[-1] raises: no answer.
minimax(b) ==
    IF utility(b) # 0
    THEN {None}
    ELSE LET possibleMoves == actions(b)
             mover == player(b)
             scores == {<<move, IF mover = X
                                THEN minValue(ttt_result(b, move))
                                ELSE maxValue(ttt_result(b, move))>> :
                           move \in possibleMoves}
             best == IF mover = X
                     THEN Largest({-2} \cup {s[2] : s \in scores})
                     ELSE Smallest({2} \cup {s[2] : s \in scores})
         IN  {s[1] : s \in {t \in scores : t[2] = best}}

InitTicTacToe ==
    /\ board = initial_state
    /\ CrosswordIdle
    /\ MinesweeperIdle

\* One turn of a game: while the game is not over (terminal), the player to
\* move marks any free cell.
Move ==
    /\ ~terminal(board)
    /\ \E action \in actions(board) : board' = ttt_result(board, action)
    /\ UNCHANGED <<crosswordVars, minesweeperVars>>

NextTicTacToe == Move

SpecTicTacToe == InitTicTacToe /\ [][NextTicTacToe]_vars

(***************************************************************************)
(* Claims about tictactoe.                                                 *)
(***************************************************************************)
Lines ==
    {{<<i, 0>>, <<i, 1>>, <<i, 2>>} : i \in 0 .. 2}
        \cup {{<<0, j>>, <<1, j>>, <<2, j>>} : j \in 0 .. 2}
        \cup {{<<0, 0>>, <<1, 1>>, <<2, 2>>}, {<<0, 2>>, <<1, 1>>, <<2, 0>>}}

\* The player p occupies all three cells of some line of b.
HasLine(b, p) == \E line \in Lines : \A c \in line : b[c] = p

\* C12: winner(board) is X on every board where X holds a whole line, O on
\* every board where O holds one, and None only when neither holds a line
\* (boards where both hold a line are left aside).
C12_WinnerFindsLine ==
    /\ (HasLine(board, X) /\ ~HasLine(board, O)) => winner(board) = X
    /\ (HasLine(board, O) /\ ~HasLine(board, X)) => winner(board) = O
    /\ winner(board) = None => (~HasLine(board, X) /\ ~HasLine(board, O))

\* The value of b under optimal play of both sides by the rules of the
\* game: 1 if X wins, -1 if O wins, 0 for a draw.
RECURSIVE GameValue(_)
GameValue(b) ==
    IF HasLine(b, X) THEN 1
    ELSE IF HasLine(b, O) THEN -1
    ELSE IF actions(b) = {} THEN 0
    ELSE IF player(b) = X
         THEN Largest({GameValue(ttt_result(b, a)) : a \in actions(b)})
         ELSE Smallest({GameValue(ttt_result(b, a)) : a \in actions(b)})

\* b is a position of a game still to be played: no line held, a free cell.
InPlay(b) == ~HasLine(b, X) /\ ~HasLine(b, O) /\ actions(b) # {}

\* C13: on every board in play reached by alternating legal moves,
\* minimax(board) answers a legal action whose resulting board has the best
\* game value the player to move can get. Of several moves that minimax
\* scores best, which one it answers is left to the iteration order of a
\* set: the property asks only that one of its possible answers be optimal.
C13_MinimaxOptimal ==
    (InPlay(board) /\ ~terminal(board)) =>
        LET values == {<<a, GameValue(ttt_result(board, a))>> : a \in actions(board)}
            best == IF player(board) = X
                    THEN Largest({v[2] : v \in values})
                    ELSE Smallest({v[2] : v \in values})
        IN  \E a \in minimax(board) : <<a, best>> \in values
(***************************************************************************)
(* minesweeper/minesweeper.py                                              *)
(***************************************************************************)
\* Most mines laid on a field.
MaxMines == 2
\* add_knowledge is called only while the knowledge base holds fewer
\* sentences than this.
MaxSentences == 2

\* The (height, width) of the fields played on.
FieldSizes == {<<2, 3>>, <<3, 3>>}

\* The cells of a field.
Field(h, w) == (0 .. h - 1) \X (0 .. w - 1)

\* Minesweeper.nearby_mines and MinesweeperAI.all_neighbours: the cells
\* within one row and one column of cell that are on the field, without cell.
all_neighbours(cell) ==
    {n \in (cell[1] - 1 .. cell[1] + 1) \X (cell[2] - 1 .. cell[2] + 1) :
        /\ n # cell
        /\ 0 <= n[1] /\ n[1] < height
        /\ 0 <= n[2] /\ n[2] < width}

nearby_mines(cell) == Cardinality(all_neighbours(cell) \cap game_mines)

Sentence(cells, count) == [cells |-> cells, count |-> count]

known_mines(sentence) ==
    IF sentence.count = Cardinality(sentence.cells) THEN sentence.cells ELSE {}

known_safes(sentence) ==
    IF sentence.count = 0 THEN sentence.cells ELSE {}

Sentence_mark_mine_CountKept(sentence, cell) ==
    IF cell \notin sentence.cells
    THEN sentence
    ELSE Sentence(sentence.cells \ {cell}, sentence.count)

\* Sentence.mark_mine
Sentence_mark_mine(sentence, cell) ==
    IF cell \notin sentence.cells
    THEN sentence
    ELSE Sentence(sentence.cells \ {cell}, sentence.count - 1)

\* Sentence.mark_safe
Sentence_mark_safe(sentence, cell) ==
    IF cell \notin sentence.cells
    THEN sentence
    ELSE Sentence(sentence.cells \ {cell}, sentence.count)

\* The fields of a MinesweeperAI as one value, for the methods below.
Ai == [moves_made |-> moves_made, mines |-> mines, safes |-> safes,
       knowledge |-> knowledge]

\* MinesweeperAI.mark_mine
mark_mine(ai, cell) ==
    [ai EXCEPT !.mines = @ \cup {cell},
               !.knowledge = [i \in DOMAIN @ |-> Sentence_mark_mine(@[i], cell)]]

\* MinesweeperAI.mark_safe
mark_safe(ai, cell) ==
    [ai EXCEPT !.safes = @ \cup {cell},
               !.knowledge = [i \in DOMAIN @ |-> Sentence_mark_safe(@[i], cell)]]

\* `for cell in cells: self.mark_mine(cell)`
RECURSIVE MarkMines(_, _)
MarkMines(ai, cells) ==
    IF cells = {}
    THEN ai
    ELSE LET cell == CHOOSE c \in cells : TRUE
         IN  MarkMines(mark_mine(ai, cell), cells \ {cell})

\* `for cell in cells: self.mark_safe(cell)`
RECURSIVE MarkSafes(_, _)
MarkSafes(ai, cells) ==
    IF cells = {}
    THEN ai
    ELSE LET cell == CHOOSE c \in cells : TRUE
         IN  MarkSafes(mark_safe(ai, cell), cells \ {cell})

\* `for cell in cells: sentence.mark_mine(cell)`
RECURSIVE SentenceMarkMines(_, _)
SentenceMarkMines(sentence, cells) ==
    IF cells = {}
    THEN sentence
    ELSE LET cell == CHOOSE c \in cells : TRUE
         IN  SentenceMarkMines(Sentence_mark_mine(sentence, cell), cells \ {cell})

\* `for cell in cells: sentence.mark_safe(cell)`
RECURSIVE SentenceMarkSafes(_, _)
SentenceMarkSafes(sentence, cells) ==
    IF cells = {}
    THEN sentence
    ELSE LET cell == CHOOSE c \in cells : TRUE
         IN  SentenceMarkSafes(Sentence_mark_safe(sentence, cell), cells \ {cell})

\* add_knowledge, lines 260-269: the loop over the sentences, from the i-th
\* on; each sentence is read as the marks made for the earlier ones left it.
RECURSIVE MarkKnown(_, _, _)
MarkKnown(ai, i, changes0) ==
    IF i > Len(ai.knowledge)
    THEN [ai |-> ai, changes |-> changes0]
    ELSE LET sentence == ai.knowledge[i]
             new_safes == known_safes(sentence) \ ai.safes
             new_mines == known_mines(sentence) \ ai.mines
         IN  MarkKnown(MarkMines(MarkSafes(ai, new_safes), new_mines), i + 1,
                       changes0 + Cardinality(new_safes) + Cardinality(new_mines))

\* add_knowledge, lines 273-282: the pairs (info1, info2) of sentences, by
\* their positions and in loop order, where info1.cells is a subset of
\* info2.cells.
SubsetPairs(kb) ==
    LET hit(i, j) == /\ kb[i].cells # {}
                     /\ kb[j] # kb[i]
                     /\ kb[j].cells # {}
                     /\ kb[i].cells \subseteq kb[j].cells
        RECURSIVE from(_, _)
        from(i, j) ==
            IF i > Len(kb) THEN <<>>
            ELSE IF j > Len(kb) THEN from(i + 1, 1)
            ELSE (IF hit(i, j) THEN << <<i, j>> >> ELSE <<>>) \o from(i, j + 1)
    IN  from(1, 1)

\* add_knowledge, lines 255-289: the while loop, from the top of one pass.
RECURSIVE InferenceLoop(_)
InferenceLoop(ai) ==
    LET marked == MarkKnown(ai, 1, 0)
        kb == marked.ai.knowledge
        pairs == SubsetPairs(kb)
        newSentences == [p \in DOMAIN pairs |->
                           Sentence(kb[pairs[p][2]].cells \ kb[pairs[p][1]].cells,
                                    kb[pairs[p][2]].count - kb[pairs[p][1]].count)]
        toDelete == {kb[pairs[p][2]].cells : p \in DOMAIN pairs}
        kept == SelectSeq(kb, LAMBDA item : item.cells \notin toDelete)
        after == [marked.ai EXCEPT !.knowledge = kept \o newSentences]
    IN  IF marked.changes + Len(pairs) = 0
        THEN after
        ELSE InferenceLoop(after)

\* MinesweeperAI.add_knowledge
add_knowledge(ai, cell, count) ==
    LET moved == [ai EXCEPT !.moves_made = @ \cup {cell}, !.safes = @ \cup {cell}]
        neighbours == all_neighbours(cell)
        newInfo == SentenceMarkSafes(Sentence(neighbours, count), moved.safes)
        \* lines 224-231
        branch == IF count = 0
                  THEN [ai |-> MarkSafes(moved, neighbours),
                        newInfo |-> SentenceMarkSafes(newInfo, neighbours)]
                  ELSE IF count = Cardinality(neighbours)
                  THEN [ai |-> MarkMines(moved, neighbours),
                        newInfo |-> SentenceMarkMines(newInfo, neighbours)]
                  ELSE [ai |-> moved, newInfo |-> newInfo]
        appended == [branch.ai EXCEPT !.knowledge = Append(@, branch.newInfo)]
        \* lines 236-244
        newsafes == UNION {known_safes(appended.knowledge[i]) :
                              i \in DOMAIN appended.knowledge}
        newmines == UNION {known_mines(appended.knowledge[i]) :
                              i \in DOMAIN appended.knowledge}
        \* lines 247-252
        updated == [appended EXCEPT !.safes = @ \cup newsafes,
                                    !.mines = @ \cup newmines]
        remarked == MarkMines(MarkSafes(updated, updated.safes), updated.mines)
        inferred == InferenceLoop(remarked)
    IN  \* line 290
        [inferred EXCEPT !.knowledge = SelectSeq(@, LAMBDA item : item.cells # {})]

\* make_safe_move: the cells it can return, the first cell of safes in
\* iteration order that is not a move made; it returns None when this set
\* is empty.
make_safe_move == {move \in safes : move \notin moves_made}

\* Minesweeper(height, width, mines) with its mines laid, and
\* MinesweeperAI(height, width).
InitMinesweeper ==
    /\ \E size \in FieldSizes :
          /\ height = size[1]
          /\ width = size[2]
          /\ game_mines \in {M \in SUBSET Field(size[1], size[2]) :
                                Cardinality(M) <= MaxMines}
    /\ moves_made = {}
    /\ mines = {}
    /\ safes = {}
    /\ knowledge = <<>>
    /\ CrosswordIdle
    /\ TicTacToeIdle

\* A cell without a mine is revealed, and the AI is told its count of
\* nearby mines.
AddKnowledge ==
    /\ Len(knowledge) < MaxSentences
    /\ \E cell \in Field(height, width) \ game_mines :
          LET ai == add_knowledge(Ai, cell, nearby_mines(cell))
          IN  /\ moves_made' = ai.moves_made
              /\ mines' = ai.mines
              /\ safes' = ai.safes
              /\ knowledge' = ai.knowledge
    /\ UNCHANGED <<height, width, game_mines>>
    /\ UNCHANGED <<crosswordVars, tictactoeVars>>

NextMinesweeper == AddKnowledge

SpecMinesweeper == InitMinesweeper /\ [][NextMinesweeper]_vars

(***************************************************************************)
(* Claims about minesweeper.                                               *)
(***************************************************************************)
\* C14: after any sequence of add_knowledge calls on cells without a mine,
\* each with the true count of nearby mines: no cell of safes holds a mine,
\* every cell of mines holds one, every sentence of the knowledge base has
\* exactly `count` mines among its cells, and make_safe_move returns no mine.
C14_InferenceSound ==
    /\ safes \cap game_mines = {}
    /\ mines \subseteq game_mines
    /\ \A i \in DOMAIN knowledge :
          Cardinality(knowledge[i].cells \cap game_mines) = knowledge[i].count
    /\ make_safe_move \cap game_mines = {}

\* C14 witness: the AI has concluded a mine and a safe cell not yet played,
\* and still holds a sentence.
C14_Witness ==
    /\ mines # {}
    /\ safes \ moves_made # {}
    /\ knowledge # <<>>
    /\ Cardinality(moves_made) >= 2
(***************************************************************************)
(* Claims about the heuristics of the crossword search.                    *)
(***************************************************************************)
\* The unassigned variables of a whose domain is of the smallest size.
TiedForSmallestDomain(a) ==
    {v \in variables \ DOMAIN a :
        \A u \in variables \ DOMAIN a :
            Cardinality(domains[v]) <= Cardinality(domains[u])}

\* The degree of a variable: its number of neighbours.
Degree(v) == Cardinality(neighbors(v))

\* C21: at every call of select_unassigned_variable made by backtrack (here
\* with no domain empty), the variable returned has the highest degree among
\* the unassigned variables that tie for the smallest domain.
C21_DegreeTieBreak ==
    (pc = "search" /\ ~assignment_complete(assignment) /\ ~SomeDomainEmpty) =>
        \A t \in TiedForSmallestDomain(assignment) :
            Degree(t) <= Degree(select_unassigned_variable(assignment))
C23_SearchKeepsDomains ==
    /\ [][(pc \in {"search", "loop"}) => (domains' = domains)]_vars
    /\ []((pc \in {"search", "loop", "done"} /\ ac3_exit = "end") =>
              domains = ArcClosure(NodeConsistentDomains))

\* C23 witness: solve() has returned after a search that made several calls
\* of backtrack and took values back, with every domain non-empty.
C23_Witness ==
    /\ pc = "done"
    /\ calls > 2
    /\ result = NoSolution
    /\ ac3_exit = "end"
    /\ ~SomeDomainEmpty
\* Some revise call of the ac3 run removed a word: the domains are no longer
\* the ones node consistency left (ac3 only removes words).
Ac3RemovedAWord == domains # NodeConsistentDomains

\* C24 (as claimed): the value ac3() returned is True iff some revise call
\* of the run removed a word from a domain, also when the run ended at the
\* empty-domain exit.
C24_ReturnTellsChange ==
    Propagated => (ac3_ret = "True" <=> Ac3RemovedAWord)

\* C24 (amended): ac3() returns True iff it ran to the end of its worklist
\* and some revise call removed a word; the run that ends at the
\* empty-domain exit has removed a word and returns False.
C24_ReturnTellsChangeAtEnd ==
    Propagated =>
        /\ ac3_ret = "True" <=> (ac3_exit = "end" /\ Ac3RemovedAWord)
        /\ ac3_exit = "empty" => (ac3_ret = "False" /\ Ac3RemovedAWord)

\* C24 witness: on a grid of three slots ac3 has left at the empty-domain
\* exit, after a revision that removed the words of one domain while another
\* domain keeps several, and returned False.
C24_Witness ==
    /\ ac3_exit = "empty"
    /\ ac3_ret = "False"
    /\ changes > 0
    /\ Cardinality(variables) = 3
    /\ \E v \in variables : Cardinality(domains[v]) >= 2
====
